---- MODULE Spec2Model ----
(***************************************************************************)
(* A model of the Rigol1000z waveform pipeline:                            *)
(*   - Rigol1000z.get_capture   (src/Rigol1000z/rigol1000z.py)             *)
(*   - WaveformChannel, Capture (src/Rigol1000z/waveform_objs.py)          *)
(*   - DBInterface              (src/Rigol1000z/sql_integration/           *)
(*                               sql_commands.py)                          *)
(* Three specifications share the variables:                               *)
(*   Spec       one run of get_capture against the instrument link         *)
(*   SpecStore  Capture / WaveformChannel objects and the sqlite store     *)
(*   SpecAmp    WaveformChannel.to_float_amplitude_array and               *)
(*              to_frequency_domain on small inputs                        *)
(* The command menu (Rigol1000z/commands.py: PreambleContext, Waveform,    *)
(* Channel, visa_ask_raw) is not part of the sources; the instrument and   *)
(* the link are modelled from the specification (sections 3 and 6).        *)
(***************************************************************************)
EXTENDS Integers, Sequences, FiniteSets, TLC

VARIABLES
    \* ---- get_capture ----
    pc,            \* position of get_capture
    exc,           \* exception that ended the call, "none" otherwise
    mode,          \* the mode argument of the call
    log,           \* history: events on the link (and sleeps), in order
    inflight,      \* data requests sent whose reply was not yet read
    ch,            \* loop variable c (1..4); the index i of __getitem__
    blk,           \* loop variable i
    info,          \* PreambleContext of the current channel
    first_info,    \* info_initial, the preamble read before the loop
    data_blocks,   \* list of stripped block payloads of the current channel
    rx,            \* history: raw block replies as received
    capture,       \* the Capture being built by get_capture
    dev,           \* the instrument: enabled flags, source, read window
    \* ---- objects and store ----
    heap,          \* the Capture the client holds: <<>> or <<capture>>
    captureTable,  \* rows of table capture, index = id
    waveformTable, \* rows of table waveform, index = id
    projectTable,  \* rows of table project, by id
    last,          \* history: the last completed client call and its outcome
    clock,         \* datetime.now(): ticks once per Capture the client constructs
    \* ---- amplitude ----
    amp            \* input and result of to_float_amplitude_array / to_frequency_domain

acqVars   == <<pc, exc, mode, log, inflight, ch, blk, info, first_info,
               data_blocks, rx, capture, dev>>
storeVars == <<heap, captureTable, waveformTable, projectTable, last, clock>>
vars      == <<pc, exc, mode, log, inflight, ch, blk, info, first_info,
               data_blocks, rx, capture, dev,
               heap, captureTable, waveformTable, projectTable, last, clock,
               amp>>

Max(a, b) == IF a >= b THEN a ELSE b
Min(a, b) == IF a <= b THEN a ELSE b

(***************************************************************************)
(* Program constants                                                       *)
(***************************************************************************)
max_num_pts == 250000    \* rigol1000z.py:280 (and the literals of 296-302)
AskMaxLen   == 250000    \* rigol1000z.py:306, second argument of visa_ask_raw
HeaderLen   == 11        \* rigol1000z.py:313, data[11:-1]
TrailerLen  == 1         \* rigol1000z.py:313, data[11:-1]
NumChannels == 4         \* rigol1000z.py:54, range(1, 5)
UNSET_ID    == -1        \* waveform_objs.py:56 and :223

ChannelNumbers == 1 .. NumChannels
waveform_modes == {"NORM", "MAX", "RAW"}         \* constants.py:190
AcceptedModes  == {"NORM", "RAW"}                \* rigol1000z.py:248

(***************************************************************************)
(* Bounds of the model                                                     *)
(***************************************************************************)
MaxBlocks  == 2    \* preamble point counts go up to MaxBlocks full blocks
MaxEnabled == 2    \* only channels 1 .. MaxEnabled may be enabled on the instrument
MaxObjects      == 1    \* Capture objects the client constructs, one after the other
MaxCaptureRows  == 1    \* rows of table capture
MaxWaveformRows == 2    \* rows of table waveform

(***************************************************************************)
(* Byte strings.  A block of 250000 samples is kept symbolically: a byte   *)
(* string is a sequence of runs <<tag, lo, hi>>, the bytes lo..hi of the   *)
(* source tag ("H" header bytes, "T" terminator bytes, or "1".."4": the    *)
(* sample memory of that channel).  Adjacent runs are merged,              *)
(* so equal byte strings have equal representations.                       *)
(***************************************************************************)
RunLen(r) == r[3] - r[2] + 1

RECURSIVE BLen(_)
BLen(b) == IF b = <<>> THEN 0 ELSE RunLen(Head(b)) + BLen(Tail(b))

RECURSIVE BTake(_, _)
BTake(b, n) ==
    IF n <= 0 \/ b = <<>> THEN <<>>
    ELSE LET r == Head(b) IN
         IF RunLen(r) <= n
         THEN <<r>> \o BTake(Tail(b), n - RunLen(r))
         ELSE << <<r[1], r[2], r[2] + n - 1>> >>

RECURSIVE BDrop(_, _)
BDrop(b, n) ==
    IF n <= 0 \/ b = <<>> THEN b
    ELSE LET r == Head(b) IN
         IF RunLen(r) <= n
         THEN BDrop(Tail(b), n - RunLen(r))
         ELSE << <<r[1], r[2] + n, r[3]>> >> \o Tail(b)

\* b1 + b2, merging the run that ends b1 with the run that starts b2
BCat(b1, b2) ==
    IF b1 = <<>> THEN b2
    ELSE IF b2 = <<>> THEN b1
    ELSE LET x == b1[Len(b1)]
             y == Head(b2)
         IN IF x[1] = y[1] /\ x[3] + 1 = y[2]
            THEN SubSeq(b1, 1, Len(b1) - 1) \o << <<x[1], x[2], y[3]>> >> \o Tail(b2)
            ELSE b1 \o b2

\* Python's b[lo:hi] for lo >= 0 and any hi (a negative hi counts from the end)
PySlice(b, lo, hi) ==
    LET n == BLen(b)
        a == Min(lo, n)
        z == IF hi < 0 THEN Max(n + hi, 0) ELSE Min(hi, n)
    IN IF z <= a THEN <<>> ELSE BTake(BDrop(b, a), z - a)

\* numpy.frombuffer(b, "B"): the uint8 array of the bytes b; and
\* ndarray.tobytes() of a uint8 array: one byte per item
np_frombuffer(b) == [dtype |-> "uint8", items |-> b]
tobytes(a) == a.items

RECURSIVE CatItems(_)
CatItems(blocks) ==
    IF blocks = <<>> THEN <<>>
    ELSE BCat(Head(blocks).items, CatItems(Tail(blocks)))

\* numpy.concatenate(blocks, axis=None) of a non-empty list of uint8 arrays
np_concatenate(blocks) == [dtype |-> "uint8", items |-> CatItems(blocks)]

(***************************************************************************)
(* Python values whose type matters: int, float and str.  A float or int   *)
(* carries its numeric value v; the value of a scale is v / ScaleDen.      *)
(***************************************************************************)
PyInt(n)   == [t |-> "int", v |-> n]
PyFloat(n) == [t |-> "float", v |-> n]
PyStr(x)   == [t |-> "str", s |-> x]

PyNeg(a)    == [t |-> a.t, v |-> 0 - a.v]
PySub(a, b) == [t |-> IF a.t = "float" \/ b.t = "float" THEN "float" ELSE "int",
                v |-> a.v - b.v]

(***************************************************************************)
(* WaveformChannel and Capture objects (waveform_objs.py)                  *)
(***************************************************************************)
\* WaveformChannel.__init__
WaveformChannel(channel_name, data, vertical_offset, vertical_scale, description) ==
    [channel_name    |-> channel_name,
     wf_data         |-> data,
     vertical_offset |-> vertical_offset,
     _vertical_scale |-> vertical_scale,
     _database_id    |-> UNSET_ID,
     description     |-> description]

\* Capture.__init__ ; now is datetime.now()
NewCapture(period, description, now) ==
    [period        |-> period,
     waveforms     |-> <<>>,
     _database_id  |-> UNSET_ID,
     _capture_time |-> now,
     description   |-> description,
     project_id    |-> -1]

\* the dict self.waveforms is kept as the sequence of its items, in the
\* iteration order of the dict
DictKeys(d) == {d[k].name : k \in 1 .. Len(d)}
DictGet(d, name) == (CHOOSE k \in 1 .. Len(d) : d[k].name = name)
DictLookup(d, name) == d[DictGet(d, name)].wf

\* DictSet where an existing key keeps its value (first write wins)
DictSet_KeepFirst(d, name, wf) ==
    IF name \in DictKeys(d) THEN d ELSE Append(d, [name |-> name, wf |-> wf])

\* d[name] = wf : an existing key keeps its place, a new key goes last
DictSet(d, name, wf) ==
    IF name \in DictKeys(d)
    THEN [d EXCEPT ![DictGet(d, name)] = [name |-> name, wf |-> wf]]
    ELSE Append(d, [name |-> name, wf |-> wf])

\* Capture.add_waveform
add_waveform(cap, channel_name, wf) ==
    [cap EXCEPT !.waveforms = DictSet(cap.waveforms, channel_name, wf)]

(***************************************************************************)
(* The instrument behind the link (modelled from the specification).       *)
(***************************************************************************)
\* point counts a preamble may report
PointsChoices ==
    {k * max_num_pts : k \in 0 .. MaxBlocks} \cup {1, max_num_pts + 1}

\* x_increment, in time units: the deeper the memory, the finer the step
XIncrementOf(points) == IF points <= max_num_pts THEN 5 ELSE 2

\* vertical settings of channel c as its preamble reports them: floats
VerticalSetting(c) ==
    IF c % 2 = 1
    THEN [y_increment |-> PyFloat(10), y_origin |-> PyFloat(1),   y_reference |-> PyFloat(127)]
    ELSE [y_increment |-> PyFloat(25), y_origin |-> PyFloat(-90), y_reference |-> PyFloat(0)]

\* Preamble (specification, section 3): the fields get_capture reads
Preamble(points, x_increment, y) ==
    [points      |-> points,
     x_increment |-> x_increment,
     y_increment |-> y.y_increment,
     y_origin    |-> y.y_origin,
     y_reference |-> y.y_reference]

NoInfo == Preamble(0, 0, [y_increment |-> PyFloat(0), y_origin |-> PyFloat(0),
                          y_reference |-> PyFloat(0)])

\* replies the instrument may give to a preamble query: a stopped instrument
\* reports for a source the point count it reported for it before
\* (dev.points, -1 while the source was not asked about)
PreambleReplies ==
    {Preamble(p, XIncrementOf(p), VerticalSetting(dev.source)) :
        p \in IF dev.points[dev.source] >= 0
              THEN {dev.points[dev.source]}
              ELSE PointsChoices}

ReplyKinds == {"full", "short", "cut"}

\* The framed reply to :wav:data? for the window [s, e] of source src; how
\* the instrument and the link behave is fixed for a run (dev.kind):
\* 11 header bytes, one byte per sample, 1 terminator byte (section 6).
\*   "full"  : the whole frame
\*   "short" : the frame with one sample less than the window asks for
\*             (the discrepancy noted at rigol1000z.py:310-312)
\*   "cut"   : the link returns only the first maxlen bytes of the frame
DeviceReply(src, s, e, kind, maxlen) ==
    LET e2      == IF kind = "short" THEN e - 1 ELSE e
        payload == IF e2 >= s THEN << <<ToString(src), s, e2>> >> ELSE <<>>
        frame   == << <<"H", 1, HeaderLen>> >> \o payload \o << <<"T", 1, TrailerLen>> >>
    IN IF kind = "cut" THEN BTake(frame, maxlen) ELSE frame

(***************************************************************************)
(* Rigol1000z.get_capture (rigol1000z.py:243-334).  One action per link    *)
(* operation or sleep; the computation that follows it, up to the next     *)
(* link operation, belongs to the same action.                             *)
(***************************************************************************)
Ev(cmd, arg) == [cmd |-> cmd, ch |-> ch, arg |-> arg]

\* positions at which get_capture is about to use the link
LinkLabels == {"set_mode", "set_format", "stop", "preamble0", "enabled",
               "source", "preamble", "start", "end", "ask", "recv"}

\* StepAfter with the end point of the window never sent
StepAfter_NoEnd(label) ==
    CASE label = "set_mode"   -> "set_format"
      [] label = "set_format" -> "sleep1"
      [] label = "sleep1"     -> "stop"
      [] label = "stop"       -> "sleep2"
      [] label = "sleep2"     -> "preamble0"
      [] label = "source"     -> "preamble"
      [] label = "start"      -> "ask"
      [] label = "ask"        -> "recv"
      [] OTHER                -> "raised"

\* StepAfter with the stop command sent after both sleeps
StepAfter_StopLate(label) ==
    CASE label = "set_mode"   -> "set_format"
      [] label = "set_format" -> "sleep1"
      [] label = "sleep1"     -> "sleep2"
      [] label = "sleep2"     -> "stop"
      [] label = "stop"       -> "preamble0"
      [] label = "source"     -> "preamble"
      [] label = "start"      -> "end"
      [] label = "end"        -> "ask"
      [] label = "ask"        -> "recv"
      [] OTHER                -> "raised"

\* the statement that follows a statement in straight-line code
StepAfter(label) ==
    CASE label = "set_mode"   -> "set_format"    \* 249 -> 252
      [] label = "set_format" -> "sleep1"        \* 252 -> 258
      [] label = "sleep1"     -> "stop"          \* 258 -> 259
      [] label = "stop"       -> "sleep2"        \* 259 -> 260
      [] label = "sleep2"     -> "preamble0"     \* 260 -> 263
      [] label = "source"     -> "preamble"      \* 275 -> 278
      [] label = "start"      -> "end"           \* 296 -> 297, 301 -> 302
      [] label = "end"        -> "ask"           \* 297/302 -> 306
      [] label = "ask"        -> "recv"          \* 306: write, then read
      [] OTHER                -> "raised"

num_blocks(points)     == points \div max_num_pts      \* line 281
last_block_pts(points) == points % max_num_pts         \* line 282

\* HasBlock without the test of last_block_pts (line 300)
HasBlock_Trailing(i, points) == i <= num_blocks(points)

\* the loop "for i in range(num_blocks + 1)" reaches line 306 for this i
HasBlock(i, points) ==
    \/ i < num_blocks(points)
    \/ i = num_blocks(points) /\ last_block_pts(points) # 0

\* lines 296 and 301
read_start_point(i, points) ==
    IF i < num_blocks(points)
    THEN 1 + i * 250000
    ELSE 1 + num_blocks(points) * 250000

\* lines 297 and 302
read_end_point(i, points) ==
    IF i < num_blocks(points)
    THEN 250000 * (i + 1)
    ELSE num_blocks(points) * 250000 + last_block_pts(points)

\* StripFrame that keeps the terminator: data[11:]
StripFrame_KeepLast(data) == PySlice(data, 11, BLen(data))

\* line 313: data[11:-1]
StripFrame(data) == PySlice(data, 11, -1)

\* total_wf_period without the x_increment factor
total_wf_period_PointsOnly(pre) == pre.points

\* line 264: float(info_initial.points * info_initial.x_increment)
total_wf_period(pre) == pre.points * pre.x_increment

\* line 317
y_offset(pre) == PySub(PyNeg(pre.y_origin), pre.y_reference)

\* CanAssemble with an empty list of blocks concatenated to an empty array
CanAssemble_Always(blocks) == TRUE

\* lines 319-322; numpy.concatenate raises ValueError on an empty list
CanAssemble(blocks) == Len(blocks) >= 1
data_array(blocks) ==
    IF Len(blocks) = 1 THEN blocks[1] ELSE np_concatenate(blocks)

\* lines 324-332
AcquiredChannel(c, blocks, pre) ==
    WaveformChannel(ToString(c), data_array(blocks), y_offset(pre), pre.y_increment, "")

\* the end of one iteration of the channel loop: on to the next channel,
\* or to the return of line 334
NextChannel(c) ==
    IF c + 1 > NumChannels
    THEN /\ pc' = "done"
         /\ ch' = c
    ELSE /\ pc' = "enabled"
         /\ ch' = c + 1

\* lines 317-332, once the block loop of channel ch has ended
Assemble(blocks, pre) ==
    IF CanAssemble(blocks)
    THEN /\ capture' = add_waveform(capture, ToString(ch), AcquiredChannel(ch, blocks, pre))
         /\ NextChannel(ch)
         /\ exc' = exc
    ELSE /\ pc' = "raised"
         /\ exc' = "ValueError"
         /\ UNCHANGED <<capture, ch>>

\* the assertion of line 142 with the lower bound one too low
valid_channel_FromZero(i) == 0 <= i /\ i <= 4

\* line 142: assert 1 <= i <= 4, 'Not a valid channel.'
valid_channel(i) == 1 <= i /\ i <= 4

NotAValidChannel == "AssertionError: Not a valid channel."

\* osc[i], Rigol1000z.__getitem__ (lines 132-143), as the client's call in
\* place of get_capture: the Channel object is returned without any use of
\* the link
GetItem ==
    /\ pc = "idle"
    /\ \E i \in 0 .. NumChannels + 1 :
        /\ ch' = i
        /\ IF valid_channel(i)
           THEN pc' = "accessed" /\ exc' = exc
           ELSE pc' = "raised" /\ exc' = NotAValidChannel
    /\ UNCHANGED <<mode, log, inflight, blk, info, first_info, data_blocks, rx, capture, dev>>

\* LinkFail with the failure recorded and the operation tried again
LinkFail_Retried ==
    /\ pc \in LinkLabels
    /\ pc' = pc
    /\ exc' = "LinkError"
    /\ UNCHANGED <<mode, log, inflight, ch, blk, info, first_info, data_blocks, rx, capture, dev>>

\* get_capture(mode): the assertion of line 248
Call ==
    /\ pc = "idle"
    /\ \E m \in waveform_modes :
        /\ mode' = m
        /\ IF m \in AcceptedModes
           THEN pc' = "set_mode" /\ exc' = exc
           ELSE pc' = "raised" /\ exc' = "AssertionError"
    /\ UNCHANGED <<log, inflight, ch, blk, info, first_info, data_blocks, rx, capture, dev>>

\* line 249: self.waveform.mode = mode
SetMode ==
    /\ pc = "set_mode"
    /\ log' = Append(log, Ev("mode", 0))
    /\ pc' = StepAfter("set_mode")
    /\ UNCHANGED <<exc, mode, inflight, ch, blk, info, first_info, data_blocks, rx, capture, dev>>

\* line 252: self.waveform.read_format = EWaveformReadFormat.Byte
SetFormat ==
    /\ pc = "set_format"
    /\ log' = Append(log, Ev("format", 0))
    /\ pc' = StepAfter("set_format")
    /\ UNCHANGED <<exc, mode, inflight, ch, blk, info, first_info, data_blocks, rx, capture, dev>>

\* lines 258 and 260: sleep(wait_time_before_read / 2)
Sleep ==
    /\ pc \in {"sleep1", "sleep2"}
    /\ log' = Append(log, Ev("sleep", 0))
    /\ pc' = StepAfter(pc)
    /\ UNCHANGED <<exc, mode, inflight, ch, blk, info, first_info, data_blocks, rx, capture, dev>>

\* line 259: self.stop()
Stop ==
    /\ pc = "stop"
    /\ log' = Append(log, Ev("stop", 0))
    /\ dev' = [dev EXCEPT !.running = FALSE]
    /\ pc' = StepAfter("stop")
    /\ UNCHANGED <<exc, mode, inflight, ch, blk, info, first_info, data_blocks, rx, capture>>

\* lines 263-268: the first preamble, the period, the empty Capture
Preamble0 ==
    /\ pc = "preamble0"
    /\ \E reply \in PreambleReplies :
        /\ first_info' = reply
        /\ dev' = [dev EXCEPT !.points[dev.source] = reply.points]
        /\ log' = Append(log, Ev("preamble", reply.points))
        /\ capture' = NewCapture(total_wf_period(reply), "", clock)
    /\ pc' = "enabled"
    /\ ch' = 1
    /\ UNCHANGED <<exc, mode, inflight, blk, info, data_blocks, rx>>

\* Enabled with the answer of the channel ignored
Enabled_Ignored ==
    /\ pc = "enabled"
    /\ log' = Append(log, Ev("enabled", 0))
    /\ pc' = "source"
    /\ UNCHANGED <<exc, mode, inflight, ch, blk, info, first_info, data_blocks, rx, capture, dev>>

\* line 273: if self[c].enabled
Enabled ==
    /\ pc = "enabled"
    /\ log' = Append(log, Ev("enabled", 0))
    /\ IF dev.enabled[ch]
       THEN pc' = "source" /\ ch' = ch
       ELSE NextChannel(ch)
    /\ UNCHANGED <<exc, mode, inflight, blk, info, first_info, data_blocks, rx, capture, dev>>

\* line 275: self.waveform.source = self[c].name
Source ==
    /\ pc = "source"
    /\ log' = Append(log, Ev("source", ch))
    /\ dev' = [dev EXCEPT !.source = ch]
    /\ pc' = StepAfter("source")
    /\ UNCHANGED <<exc, mode, inflight, ch, blk, info, first_info, data_blocks, rx, capture>>

\* lines 278-294 (and 317-332 when the block loop has nothing to fetch)
ChannelPreamble ==
    /\ pc = "preamble"
    /\ \E reply \in PreambleReplies :
        /\ info' = reply
        /\ dev' = [dev EXCEPT !.points[dev.source] = reply.points]
        /\ log' = Append(log, Ev("preamble", reply.points))
        /\ blk' = 0
        /\ data_blocks' = <<>>
        /\ IF HasBlock(0, reply.points)
           THEN /\ pc' = "start"
                /\ UNCHANGED <<exc, ch, capture>>
           ELSE Assemble(<<>>, reply)
    /\ UNCHANGED <<mode, inflight, first_info, rx>>

\* lines 296 and 301: self.waveform.read_start_point = ...
SetStart ==
    /\ pc = "start"
    /\ log' = Append(log, Ev("start", read_start_point(blk, info.points)))
    /\ dev' = [dev EXCEPT !.rstart = read_start_point(blk, info.points)]
    /\ pc' = StepAfter("start")
    /\ UNCHANGED <<exc, mode, inflight, ch, blk, info, first_info, data_blocks, rx, capture>>

\* lines 297 and 302: self.waveform.read_end_point = ...
SetEnd ==
    /\ pc = "end"
    /\ log' = Append(log, Ev("end", read_end_point(blk, info.points)))
    /\ dev' = [dev EXCEPT !.rend = read_end_point(blk, info.points)]
    /\ pc' = StepAfter("end")
    /\ UNCHANGED <<exc, mode, inflight, ch, blk, info, first_info, data_blocks, rx, capture>>

\* line 306, first half: the request :wav:data? goes out
Ask ==
    /\ pc = "ask"
    /\ log' = Append(log, Ev("ask", AskMaxLen))
    /\ inflight' = inflight + 1
    /\ pc' = StepAfter("ask")
    /\ UNCHANGED <<exc, mode, ch, blk, info, first_info, data_blocks, rx, capture, dev>>

\* lines 306-315, second half: the reply is read, stripped and appended;
\* then the loop goes on (294) or ends (317-332)
Recv ==
    /\ pc = "recv"
    /\ LET reply  == DeviceReply(dev.source, dev.rstart, dev.rend, dev.kind, AskMaxLen)
           blocks == Append(data_blocks, np_frombuffer(StripFrame(reply)))
       IN /\ log' = Append(log, Ev("recv", BLen(reply)))
          /\ rx' = Append(rx, [ch |-> ch, blk |-> blk, lo |-> dev.rstart, hi |-> dev.rend,
                               reply |-> reply, payload |-> StripFrame(reply)])
          /\ inflight' = inflight - 1
          /\ data_blocks' = blocks
          /\ blk' = blk + 1
          /\ IF HasBlock(blk + 1, info.points)
             THEN /\ pc' = "start"
                  /\ UNCHANGED <<exc, ch, capture>>
             ELSE Assemble(blocks, info)
    /\ UNCHANGED <<mode, info, first_info, dev>>

\* the link raises (timeout, disconnect) in place of completing the operation
LinkFail ==
    /\ pc \in LinkLabels
    /\ pc' = "raised"
    /\ exc' = "LinkError"
    /\ UNCHANGED <<mode, log, inflight, ch, blk, info, first_info, data_blocks, rx, capture, dev>>

EnabledSets == SUBSET (ChannelNumbers \cap (1 .. MaxEnabled))

InitAcq ==
    /\ pc = "idle"
    /\ exc = "none"
    /\ mode = "NORM"
    /\ log = <<>>
    /\ inflight = 0
    /\ ch = 0
    /\ blk = 0
    /\ info = NoInfo
    /\ first_info = NoInfo
    /\ data_blocks = <<>>
    /\ rx = <<>>
    /\ capture = NewCapture(0, "", 0)
    /\ \E S \in EnabledSets, k \in ReplyKinds :
          dev = [enabled |-> [c \in ChannelNumbers |-> c \in S],
                 points |-> [c \in ChannelNumbers |-> -1],
                 kind |-> k, running |-> TRUE,
                 source |-> 1, rstart |-> 1, rend |-> 1]

NoCall == [op |-> "none", obj |-> 0, outcome |-> "none", exc |-> "none",
           value |-> 0, stmts |-> <<>>, result |-> <<>>, name |-> "", arg |-> <<>>]

\* the rows ensure_database_initialized writes into table project (lines 43-52)
ReservedProjects ==
    << [id |-> -1, name |-> "UNASSIGNED_PROJECT"], [id |-> -2, name |-> "TESTING_PROJECT"] >>

\* "insert or replace": a row with the same primary key is replaced
insert_plain(tbl, row) == Append(tbl, row)
insert_or_replace(tbl, row) ==
    Append(SelectSeq(tbl, LAMBDA r : r.id # row.id), row)

\* the project table after ensure_database_initialized (lines 29-88): the
\* tables are created only if missing, the reserved rows are written again
InitializedProjects(tbl) ==
    insert_or_replace(insert_or_replace(tbl, ReservedProjects[1]), ReservedProjects[2])

InitStoreIdle ==
    /\ heap = <<>>
    /\ captureTable = <<>>
    /\ waveformTable = <<>>
    /\ projectTable = InitializedProjects(<<>>)
    /\ last = NoCall
    /\ clock = 0

NoResult == [ok |-> TRUE, exc |-> "none", dtype |-> "none", values |-> <<>>]

InitAmpIdle ==
    amp = [stage |-> "idle", promotion |-> "legacy", wf |-> <<>>, window |-> "none",
           result |-> NoResult]

Init == InitAcq /\ InitStoreIdle /\ InitAmpIdle

Next ==
    \/ (Call /\ UNCHANGED <<storeVars, amp>>)
    \/ (GetItem /\ UNCHANGED <<storeVars, amp>>)
    \/ (SetMode /\ UNCHANGED <<storeVars, amp>>)
    \/ (SetFormat /\ UNCHANGED <<storeVars, amp>>)
    \/ (Sleep /\ UNCHANGED <<storeVars, amp>>)
    \/ (Stop /\ UNCHANGED <<storeVars, amp>>)
    \/ (Preamble0 /\ UNCHANGED <<storeVars, amp>>)
    \/ (Enabled /\ UNCHANGED <<storeVars, amp>>)
    \/ (Source /\ UNCHANGED <<storeVars, amp>>)
    \/ (ChannelPreamble /\ UNCHANGED <<storeVars, amp>>)
    \/ (SetStart /\ UNCHANGED <<storeVars, amp>>)
    \/ (SetEnd /\ UNCHANGED <<storeVars, amp>>)
    \/ (Ask /\ UNCHANGED <<storeVars, amp>>)
    \/ (Recv /\ UNCHANGED <<storeVars, amp>>)
    \/ (LinkFail /\ UNCHANGED <<storeVars, amp>>)

Spec == Init /\ [][Next]_vars

(***************************************************************************)
(* Properties of get_capture                                               *)
(***************************************************************************)
\* the arguments of the events cmd that get_capture issued for channel c
ArgsOf(cmd, c) ==
    LET f == SelectSeq(log, LAMBDA e : e.cmd = cmd /\ e.ch = c)
    IN [k \in 1 .. Len(f) |-> f[k].arg]

\* the channels whose preamble get_capture has read
Fetched == {c \in ChannelNumbers : ArgsOf("preamble", c) # <<>>}
PointsOf(c) == ArgsOf("preamble", c)[1]

\* the channels whose WaveformChannel is in the Capture
Complete == {c \in ChannelNumbers : ToString(c) \in DictKeys(capture.waveforms)}

CeilDiv(n, d) == (n + d - 1) \div d

\* C1: for a channel whose preamble reports N >= 1 points, the read windows
\* set by get_capture are 1-based, inclusive and consecutive, hold at most
\* 250000 points each, and, once the channel is complete, cover [1, N]
\* exactly once; one data request goes out per window and the number of
\* windows is ceil(N / 250000), so there is no trailing block when N is a
\* multiple of 250000.
C1_BlockPartition ==
    \A c \in Fetched :
        LET N == PointsOf(c)
            S == ArgsOf("start", c)
            E == ArgsOf("end", c)
            A == ArgsOf("ask", c)
        IN N >= 1 =>
            /\ Len(E) <= Len(S) /\ Len(S) <= Len(E) + 1
            /\ Len(A) <= Len(E) /\ Len(E) <= Len(A) + 1
            /\ Len(S) <= CeilDiv(N, 250000)
            /\ Len(S) >= 1 => S[1] = 1
            /\ \A k \in 1 .. Len(E) :
                  /\ S[k] <= E[k]
                  /\ E[k] - S[k] + 1 <= 250000
                  /\ E[k] <= N
            /\ \A k \in 1 .. Len(S) - 1 : S[k + 1] = E[k] + 1
            /\ c \in Complete =>
                  /\ Len(S) = CeilDiv(N, 250000)
                  /\ Len(E) = Len(S) /\ Len(A) = Len(S)
                  /\ E[Len(E)] = N

\* C1 witness: a channel of exactly two full blocks is complete, fetched
\* with two windows and two requests
C1_Witness ==
    \E c \in Complete :
        /\ PointsOf(c) = 2 * 250000
        /\ ArgsOf("start", c) = <<1, 250001>>
        /\ ArgsOf("end", c) = <<250000, 500000>>
        /\ Len(ArgsOf("ask", c)) = 2

\* the replies received for channel c, in order
RxOf(c) == SelectSeq(rx, LAMBDA r : r.ch = c)
PayloadsOf(c) == [k \in 1 .. Len(RxOf(c)) |-> np_frombuffer(RxOf(c)[k].payload)]

\* C2: the payload of a block is its reply without the first 11 bytes and
\* without the last byte; the sample buffer of a channel is the
\* concatenation of its payloads in block order, so it has exactly
\* total_points bytes when every reply carries one byte per requested point.
C2_StripAndConcat ==
    /\ \A k \in 1 .. Len(rx) :
          LET r == rx[k] IN
          /\ BLen(r.payload) = BLen(r.reply) - 12
          /\ BCat(BCat(BTake(r.reply, 11), r.payload),
                  BDrop(r.reply, BLen(r.reply) - 1)) = r.reply
    /\ pc \in {"start", "end", "ask", "recv"} => data_blocks = PayloadsOf(ch)
    /\ \A c \in Complete :
          LET buf == DictLookup(capture.waveforms, ToString(c)).wf_data.items IN
          /\ buf = CatItems(PayloadsOf(c))
          /\ (\A k \in 1 .. Len(RxOf(c)) :
                 BLen(RxOf(c)[k].payload) = RxOf(c)[k].hi - RxOf(c)[k].lo + 1)
             => /\ BLen(buf) = PointsOf(c)
                /\ buf = << <<ToString(c), 1, PointsOf(c)>> >>

\* C2 witness: a complete channel of two blocks (250001 points) whose
\* buffer holds all its points
C2_Witness ==
    \E c \in Complete :
        /\ PointsOf(c) = 250000 + 1
        /\ Len(RxOf(c)) = 2
        /\ BLen(DictLookup(capture.waveforms, ToString(c)).wf_data.items) = PointsOf(c)

\* a reply whose stripped payload is not as long as the window asked for
Mismatch(r) == BLen(r.payload) # r.hi - r.lo + 1

\* C3 (as claimed): a block whose payload length differs from the size of
\* the requested window ends get_capture with a transfer-integrity error,
\* and no Capture with a truncated or padded channel is returned.
C3_MismatchRaises ==
    /\ (\E k \in 1 .. Len(rx) : Mismatch(rx[k]))
          => pc = "raised" /\ exc = "TransferIntegrityError"
    /\ pc = "done" =>
          \A c \in Complete :
              BLen(DictLookup(capture.waveforms, ToString(c)).wf_data.items) = PointsOf(c)

\* the window and data events of the log, in order
BlockEvents == SelectSeq(log, LAMBDA e : e.cmd \in {"start", "end", "ask", "recv"})
BlockPattern == <<"start", "end", "ask", "recv">>

\* C6: blocks are fetched one at a time: start point, end point, request,
\* reply, in this order for every block; the next window is not set before
\* the reply to the previous request has been read, and at most one data
\* request is outstanding.
C6_Sequential ==
    LET B == BlockEvents IN
    /\ \A j \in 1 .. Len(B) :
          /\ B[j].cmd = BlockPattern[((j - 1) % 4) + 1]
          /\ (j - 1) % 4 # 0 => B[j].ch = B[j - 1].ch
    /\ inflight \in {0, 1}
    /\ inflight = 1 <=> (B # <<>> /\ B[Len(B)].cmd = "ask")
    /\ pc \in {"start", "end"} => inflight = 0

\* C6 witness: two blocks of one channel have been fetched
C6_Witness ==
    LET B == BlockEvents IN
    /\ Len(B) >= 8
    /\ B[5].ch = B[1].ch
    /\ B[8].cmd = "recv"

IndicesOf(cmd) == {j \in 1 .. Len(log) : log[j].cmd = cmd}

\* C7: the stop command goes out before the first preamble query and before
\* any block request, a sleep lies between the stop command and the first
\* preamble query, and get_capture sends the stop command only once.
C7_StopFirst ==
    LET stops  == IndicesOf("stop")
        sleeps == IndicesOf("sleep")
        after  == {j \in 1 .. Len(log) :
                      log[j].cmd \in {"preamble", "source", "start", "end", "ask", "recv"}}
    IN /\ Cardinality(stops) <= 1
       /\ after # {} =>
             \E s \in stops, t \in sleeps : s < t /\ \A j \in after : t < j

\* C7 witness: get_capture returned after it fetched at least one block
C7_Witness == pc = "done" /\ IndicesOf("ask") # {}

\* C8: the period of the Capture is points * x_increment of the first
\* preamble, which is read before the waveform source is set; the preambles
\* of the channels do not change it.
C8_PeriodFromFirstPreamble ==
    LET pre == IndicesOf("preamble") IN
    pre # {} =>
        LET j0 == CHOOSE j \in pre : \A j2 \in pre : j <= j2
        IN /\ log[j0].arg = first_info.points
           /\ \A s \in IndicesOf("source") : j0 < s
           /\ capture.period = first_info.points * first_info.x_increment

\* C8 witness: a Capture was returned with two channels, one of them with a
\* point count that differs from that of the first preamble
C8_Witness ==
    /\ pc = "done"
    /\ Cardinality(Complete) >= 2
    /\ \E c \in Complete : PointsOf(c) # first_info.points
    /\ capture.period > 0

\* C16: get_capture with a mode other than Normal or Raw fails before any
\* command is written to the link and before any transfer is requested, and
\* so does the access to a channel index outside 1..4; only an index in 1..4
\* gives a channel.
C16_RejectedBeforeLink ==
    /\ (pc \notin {"idle", "accessed"} /\ exc # NotAValidChannel /\ mode \notin AcceptedModes)
          => (pc = "raised" /\ exc = "AssertionError")
    /\ exc \in {"AssertionError", NotAValidChannel}
          => (pc = "raised" /\ log = <<>> /\ inflight = 0 /\ rx = <<>>)
    /\ exc = "AssertionError" => mode \notin AcceptedModes
    /\ exc = NotAValidChannel => ch \notin ChannelNumbers
    /\ pc = "accessed" => (ch \in ChannelNumbers /\ exc = "none" /\ log = <<>>)
    /\ mode \notin AcceptedModes => log = <<>>

\* get_capture was called with the mode MAX and has ended
C16_Witness ==
    /\ pc = "raised"
    /\ exc = "AssertionError"
    /\ mode = "MAX"

\* C17: once the link has failed in a preamble query, a window command or a
\* data request, get_capture has ended with that failure: nothing more is
\* written to or read from the link, the request is not repeated and no
\* Capture is returned.
C17_LinkFailureEnds ==
    /\ [](exc = "LinkError" => pc = "raised")
    /\ [][exc = "LinkError" =>
            /\ exc' = "LinkError"
            /\ pc' = "raised"
            /\ log' = log
            /\ inflight' = inflight
            /\ rx' = rx]_vars
    /\ [][exc' = "LinkError" /\ exc # "LinkError" =>
            /\ pc \in LinkLabels
            /\ log' = log
            /\ capture' = capture]_vars

\* the link failed while the reply to the second data request was awaited
C17_Witness ==
    /\ pc = "raised"
    /\ exc = "LinkError"
    /\ inflight = 1
    /\ Len(rx) = 1

\* the commands of the log issued while the channel loop was at channel c
CmdsOf(c) ==
    LET f == SelectSeq(log, LAMBDA e : e.ch = c)
    IN [k \in 1 .. Len(f) |-> f[k].cmd]

\* C20: the channels are visited in the order 1, 2, 3, 4; for an enabled
\* channel the source is set to it, then its preamble is read, then windows
\* are set and blocks fetched, as many as its own point count needs, and its
\* WaveformChannel is in the Capture exactly when the loop has left the
\* channel; for a disabled channel nothing but the enabled query is issued
\* and the Capture has no entry.
C20_ChannelLoop ==
    LET visits == SelectSeq(log, LAMBDA e : e.cmd = "enabled") IN
    /\ \A k \in 1 .. Len(visits) : visits[k].ch = k
    /\ \A j \in 1 .. Len(log) - 1 : log[j].ch <= log[j + 1].ch
    /\ Len(capture.waveforms) = Cardinality(Complete)
    /\ pc = "done" => (Len(visits) = NumChannels /\
                       Complete = {c \in ChannelNumbers : dev.enabled[c]})
    /\ \A c \in ChannelNumbers :
          LET E == CmdsOf(c) IN
          IF ~dev.enabled[c]
          THEN E \in {<<>>, <<"enabled">>} /\ c \notin Complete
          ELSE /\ Len(E) >= 1 => E[1] = "enabled"
               /\ Len(E) >= 2 => (E[2] = "source" /\ ArgsOf("source", c) = <<c>>)
               /\ Len(E) >= 3 => (E[3] = "preamble" /\ Len(ArgsOf("preamble", c)) = 1)
               /\ \A k \in 4 .. Len(E) : E[k] \in {"start", "end", "ask", "recv"}
               /\ c \in Complete <=> (Len(E) >= 3 /\ (ch > c \/ pc = "done"))
               /\ c \in Complete =>
                     /\ Len(ArgsOf("ask", c)) = CeilDiv(PointsOf(c), max_num_pts)
                     /\ ArgsOf("end", c)[Len(ArgsOf("end", c))] = PointsOf(c)

\* a Capture was returned with channel 1 disabled and channel 2 fetched by
\* a point count other than that of the first preamble
C20_Witness ==
    /\ pc = "done"
    /\ ~dev.enabled[1]
    /\ 2 \in Complete
    /\ PointsOf(2) # ArgsOf("preamble", 0)[1]

\* C21: for every block data request the maximum response length handed to
\* the raw query is at least the size of the framed response of the window
\* just set: its point count plus the 11 header bytes and the terminator.
C21_AskLimitCoversFrame ==
    \A j \in 3 .. Len(BlockEvents) :
        BlockEvents[j].cmd = "ask" =>
            LET lo == BlockEvents[j - 2].arg
                hi == BlockEvents[j - 1].arg
            IN BlockEvents[j].arg >= (hi - lo + 1) + HeaderLen + TrailerLen

\* the channels whose preamble reported no points
Pointless == {c \in Fetched : PointsOf(c) = 0}

\* C23: when the preamble of an enabled channel reports 0 points, no read
\* window is set and no data is requested for the channel, and get_capture
\* has ended with an error: no Capture is returned and none holds a channel
\* without samples.
C23_NoPointsEndsInError ==
    /\ \A c \in Pointless :
          /\ ArgsOf("start", c) = <<>>
          /\ ArgsOf("end", c) = <<>>
          /\ ArgsOf("ask", c) = <<>>
          /\ c \notin Complete
          /\ pc = "raised"
          /\ exc = "ValueError"
          /\ ch = c
    /\ \A c \in Complete :
          PointsOf(c) = 0 =>
              DictLookup(capture.waveforms, ToString(c)).wf_data.items # <<>>

\* channel 1 was fetched whole, then the preamble of channel 2 reported no
\* points and get_capture ended
C23_Witness ==
    /\ 2 \in Pointless
    /\ 1 \in Complete
    /\ pc = "raised"
    /\ exc = "ValueError"
    /\ log[Len(log)] = [cmd |-> "preamble", ch |-> 2, arg |-> 0]

(***************************************************************************)
(* Values crossing the store.  A scale is written v for the value v/1000.  *)
(***************************************************************************)
\* the numeric value of a decimal text: Decimal(text), float(text)
DecimalValue(text) ==
    CASE text = "0.01"  -> 10
      [] text = "0.010" -> 10
      [] text = "1e-2"  -> 10
      [] text = "0.025" -> 25
      [] OTHER          -> 0

\* the text sqlite renders for a REAL bound to a TEXT column
RealToText(v) ==
    CASE v = 10 -> "0.01"
      [] v = 25 -> "0.025"
      [] OTHER  -> "0.0"

\* column vertical_scale TEXT: text is kept, a number is stored as its text
TextAffinity(x) == IF x.t = "str" THEN x ELSE PyStr(RealToText(x.v))

\* column vertical_offset INTEGER: a float with an integral value is
\* stored, and read back, as an integer
IntegerAffinity(x) == IF x.t = "float" THEN PyInt(x.v) ELSE x

\* WaveformChannel.vertical_scale: Decimal(self._vertical_scale)
vertical_scale(wf) ==
    IF wf._vertical_scale.t = "str"
    THEN DecimalValue(wf._vertical_scale.s)
    ELSE wf._vertical_scale.v

(***************************************************************************)
(* DBInterface (sql_commands.py)                                           *)
(***************************************************************************)
Stmt(op, table, id) == [op |-> op, table |-> table, id |-> id]

\* parameter names of the store's write functions, and the keyword names
\* their callers in waveform_objs.py pass
write_capture_to_db_params ==
    {"capture_period", "capture_datetime", "capture_description", "part_of_project"}
write_waveform_to_db_params ==
    {"measurement_fk", "wf", "channel_name", "vertical_offset", "vertical_scale", "description"}
Capture_write_keywords ==
    {"capture_period", "capture_datetime", "capture_description", "project_id"}
WaveformChannel_write_keywords ==
    {"measurement_fk", "channel_name", "vertical_offset", "vertical_scale", "wf", "description"}

\* a Python call binds when every keyword names a parameter and every
\* parameter without a default is given; otherwise it raises TypeError
CallBinds(keywords, params, required) ==
    keywords \subseteq params /\ required \subseteq keywords

\* the row db.write_capture_to_db inserts
CaptureRow(capture_period, capture_datetime, capture_description, part_of_project) ==
    [description      |-> capture_description,
     capture_period   |-> capture_period,
     capture_datetime |-> capture_datetime,
     fk_project       |-> part_of_project]

\* the row db.write_waveform_to_db inserts, as the columns hold it
WaveformRow(measurement_fk, wf, channel_name, v_offset, v_scale, description) ==
    [fk_capture      |-> measurement_fk,
     channel_name    |-> channel_name,
     vertical_offset |-> IntegerAffinity(v_offset),
     vertical_scale  |-> TextAffinity(v_scale),
     description     |-> description,
     wf              |-> wf]

\* db.get_capture_from_id: fetchone() gives None when there is no such row
HasCapture(tbl, capture_id) == capture_id \in 1 .. Len(tbl)
get_capture_from_id(tbl, capture_id) ==
    <<tbl[capture_id].capture_period, tbl[capture_id].description,
      tbl[capture_id].capture_datetime>>

\* WaveformIdsOf without the condition w.fk_capture = c.id of the join
WaveformIdsOf_AllRows(ctbl, wtbl, capture_id) ==
    {w \in 1 .. Len(wtbl) : HasCapture(ctbl, capture_id)}

\* db.get_waveforms_from_capture_id: the ids of the rows the join selects
WaveformIdsOf(ctbl, wtbl, capture_id) ==
    {w \in 1 .. Len(wtbl) :
        wtbl[w].fk_capture = capture_id /\ HasCapture(ctbl, capture_id)}

\* the orders in which fetchall() may return them (the query has no ORDER BY)
Orders(ids) ==
    {o \in [1 .. Cardinality(ids) -> ids] :
        \A i, j \in 1 .. Cardinality(ids) : i # j => o[i] # o[j]}

(***************************************************************************)
(* Persistence of WaveformChannel and Capture (waveform_objs.py)           *)
(***************************************************************************)
\* Written with the returned id dropped
Written_IdDropped(obj, id) == obj

\* self._database_id = db.write_..._to_db(...): the object after a write
\* that returned id (waveform_objs.py:91 and 241)
Written(obj, id) == [obj EXCEPT !._database_id = id]

\* WaveformChannel.write_to_db: the row written for wf
ChannelRow(wf, capture_key, description) ==
    WaveformRow(capture_key, tobytes(wf.wf_data), wf.channel_name,
                wf.vertical_offset, wf._vertical_scale, description)

\* the loop of Capture.write_to_db (lines 248-252) from item k of the dict on:
\* every channel is written and takes the id of its row
RECURSIVE WriteChannels(_, _, _, _, _)
WriteChannels(d, k, key, wtbl, stmts) ==
    IF k > Len(d) THEN [waveforms |-> d, wtbl |-> wtbl, stmts |-> stmts]
    ELSE LET id == Len(wtbl) + 1 IN
         WriteChannels([d EXCEPT ![k].wf = Written(d[k].wf, id)], k + 1, key,
                       Append(wtbl, ChannelRow(d[k].wf, key, "")),
                       stmts \o <<Stmt("insert", "waveform", id), Stmt("commit", "", 0)>>)

\* the channels capture_from_database_id builds from the rows, in order
ChannelOfRow(row) ==
    WaveformChannel(row.channel_name, np_frombuffer(row.wf), row.vertical_offset,
                    row.vertical_scale, row.description)

RECURSIVE AddRows(_, _, _, _)
AddRows(cap, wtbl, order, k) ==
    IF k > Len(order) THEN cap
    ELSE AddRows(add_waveform(cap, wtbl[order[k]].channel_name, ChannelOfRow(wtbl[order[k]])),
                 wtbl, order, k + 1)

\* capture_from_database_id (lines 368-395) when the capture row exists
Reconstructed(ctbl, wtbl, capture_id, order, now) ==
    LET resp == get_capture_from_id(ctbl, capture_id)
        c0   == NewCapture(resp[1], "", now)
        c1   == [c0 EXCEPT !.description = resp[2], !._capture_time = resp[3]]
    IN AddRows(c1, wtbl, order, 1)

(***************************************************************************)
(* Client calls on objects and store                                       *)
(***************************************************************************)
Names        == {"1", "2"}
\* the (period, description) pairs a client constructs its Captures with,
\* in turn
CaptureInputs == << <<5, "">>, <<1250000, "bench">> >>

\* channels a client may add under the name of channel c: for an odd c one
\* as get_capture builds it and one built by hand with an integer offset and
\* a text scale, for an even c one built by hand
ChannelInputs(c) ==
    IF c % 2 = 1
    THEN { AcquiredChannel(c, << np_frombuffer(<<0, 128, 255>>) >>,
                           Preamble(3, XIncrementOf(3), VerticalSetting(c))),
           WaveformChannel(ToString(c), np_frombuffer(<<0, 128, 255>>),
                           PyInt(-128), PyStr("0.010"), "") }
    ELSE { WaveformChannel(ToString(c), np_frombuffer(<<200>>),
                           PyInt(100), PyStr("1e-2"), "") }

Called(op, obj, outcome, exception, value, stmts) ==
    [op |-> op, obj |-> obj, outcome |-> outcome, exc |-> exception,
     value |-> value, stmts |-> stmts, result |-> <<>>, name |-> "", arg |-> <<>>]

\* capture = Capture(period, description): the client keeps one Capture at a
\* time, as examples/db_example.py does; a new one takes the place of the
\* previous one
CreateCapture ==
    /\ clock < MaxObjects
    /\ LET a == CaptureInputs[(clock % Len(CaptureInputs)) + 1]
       IN heap' = << NewCapture(a[1], a[2], clock) >>
    /\ clock' = clock + 1
    /\ last' = Called("Capture", 1, "returned", "none", 0, <<>>)
    /\ UNCHANGED <<captureTable, waveformTable, projectTable>>

\* capture.add_waveform(name, wf)
AddWaveform ==
    /\ \E o \in 1 .. Len(heap), c \in 1 .. Cardinality(Names) :
        \E wf \in ChannelInputs(c) :
          /\ heap' = [heap EXCEPT ![o] = add_waveform(heap[o], ToString(c), wf)]
          /\ last' = [Called("add_waveform", o, "returned", "none", 0, <<>>)
                         EXCEPT !.name = ToString(c), !.arg = <<wf>>]
    /\ UNCHANGED <<captureTable, waveformTable, projectTable, clock>>

\* capture.write_to_db() (lines 238-254)
CaptureWriteToDb ==
    \E o \in 1 .. Len(heap) :
        LET cap == heap[o] IN
        IF ~CallBinds(Capture_write_keywords, write_capture_to_db_params,
                      {"capture_period", "capture_datetime"})
        THEN /\ last' = Called("Capture.write_to_db", o, "raised", "TypeError", 0, <<>>)
             /\ UNCHANGED <<heap, captureTable, waveformTable, projectTable, clock>>
        ELSE LET id == Len(captureTable) + 1
                 w  == WriteChannels(cap.waveforms, 1, id, waveformTable,
                                     <<Stmt("insert", "capture", id), Stmt("commit", "", 0)>>)
             IN /\ Len(captureTable) < MaxCaptureRows
                /\ Len(waveformTable) + Len(cap.waveforms) <= MaxWaveformRows
                /\ captureTable' = Append(captureTable,
                       CaptureRow(cap.period, cap._capture_time, cap.description, cap.project_id))
                /\ waveformTable' = w.wtbl
                /\ heap' = [heap EXCEPT ![o] = [Written(cap, id) EXCEPT
                                                           !.waveforms = w.waveforms]]
                /\ last' = Called("Capture.write_to_db", o, "returned", "none", id, w.stmts)
                /\ UNCHANGED <<projectTable, clock>>

\* db.write_capture_to_db(period, time, description, project) called by the
\* client with the values of one of its Capture objects
DbWriteCapture ==
    /\ Len(captureTable) < MaxCaptureRows
    /\ \E o \in 1 .. Len(heap) :
        LET cap == heap[o]
            id  == Len(captureTable) + 1
        IN /\ captureTable' = Append(captureTable,
                  CaptureRow(cap.period, cap._capture_time, cap.description, cap.project_id))
           /\ last' = Called("db.write_capture_to_db", o, "returned", "none", id,
                             <<Stmt("insert", "capture", id), Stmt("commit", "", 0)>>)
    /\ UNCHANGED <<heap, waveformTable, projectTable, clock>>

\* wf.write_to_db(capture_key) on a channel of a Capture (lines 89-99)
ChannelWriteToDb ==
    /\ Len(waveformTable) < MaxWaveformRows
    /\ \E o \in 1 .. Len(heap) :
        \E k \in 1 .. Len(heap[o].waveforms), key \in {UNSET_ID} \cup (1 .. Len(captureTable)) :
          LET wf == heap[o].waveforms[k].wf
              id == Len(waveformTable) + 1
          IN /\ CallBinds(WaveformChannel_write_keywords, write_waveform_to_db_params,
                          write_waveform_to_db_params)
             /\ waveformTable' = Append(waveformTable, ChannelRow(wf, key, ""))
             /\ heap' = [heap EXCEPT ![o].waveforms[k].wf = Written(wf, id)]
             /\ last' = [Called("WaveformChannel.write_to_db", o, "returned", "none", id,
                                <<Stmt("insert", "waveform", id), Stmt("commit", "", 0)>>)
                            EXCEPT !.name = heap[o].waveforms[k].name]
    /\ UNCHANGED <<captureTable, projectTable, clock>>

\* capture_from_database_id(capture_id) (lines 368-395); unpacking the None
\* of a missing row raises TypeError.  The time Capture() takes at line 374
\* is overwritten at line 376 and is not counted as a tick.
CaptureFromDatabaseId ==
    /\ \E capture_id \in 1 .. Len(captureTable) + 1 :
        IF ~HasCapture(captureTable, capture_id)
        THEN /\ last' = Called("capture_from_database_id", 0, "raised", "TypeError",
                               capture_id, <<>>)
        ELSE \E order \in Orders(WaveformIdsOf(captureTable, waveformTable, capture_id)) :
             /\ last' = [Called("capture_from_database_id", 0, "returned", "none",
                                capture_id, <<>>)
                            EXCEPT !.result = << Reconstructed(captureTable, waveformTable,
                                                               capture_id, order, clock) >>]
    /\ UNCHANGED <<heap, captureTable, waveformTable, projectTable, clock>>

\* db.get_capture_from_id(capture_id) called by the client (lines 126-136):
\* fetchone() of an empty result is None, returned as it is
DbGetCaptureFromId ==
    /\ \E capture_id \in 1 .. Len(captureTable) + 1 :
          last' = [Called("db.get_capture_from_id", 0, "returned", "none", capture_id, <<>>)
                     EXCEPT !.result = IF HasCapture(captureTable, capture_id)
                                       THEN << get_capture_from_id(captureTable, capture_id) >>
                                       ELSE <<>>]
    /\ UNCHANGED <<heap, captureTable, waveformTable, projectTable, clock>>

\* db.ensure_database_initialized() called again (lines 29-88)
EnsureDatabaseInitialized ==
    /\ projectTable' = InitializedProjects(projectTable)
    /\ last' = Called("db.ensure_database_initialized", 0, "returned", "none", 0,
                      <<Stmt("insert or replace", "project", -1),
                        Stmt("insert or replace", "project", -2), Stmt("commit", "", 0)>>)
    /\ UNCHANGED <<heap, captureTable, waveformTable, clock>>

InitAcqIdle ==
    /\ pc = "idle"
    /\ exc = "none"
    /\ mode = "NORM"
    /\ log = <<>>
    /\ inflight = 0
    /\ ch = 0
    /\ blk = 0
    /\ info = NoInfo
    /\ first_info = NoInfo
    /\ data_blocks = <<>>
    /\ rx = <<>>
    /\ capture = NewCapture(0, "", 0)
    /\ dev = [enabled |-> [c \in ChannelNumbers |-> FALSE],
              points |-> [c \in ChannelNumbers |-> -1],
              kind |-> "full", running |-> TRUE,
              source |-> 1, rstart |-> 1, rend |-> 1]

InitStore == InitAcqIdle /\ InitStoreIdle /\ InitAmpIdle

NextStore ==
    \/ (CreateCapture /\ UNCHANGED <<acqVars, amp>>)
    \/ (AddWaveform /\ UNCHANGED <<acqVars, amp>>)
    \/ (CaptureWriteToDb /\ UNCHANGED <<acqVars, amp>>)
    \/ (DbWriteCapture /\ UNCHANGED <<acqVars, amp>>)
    \/ (ChannelWriteToDb /\ UNCHANGED <<acqVars, amp>>)
    \/ (CaptureFromDatabaseId /\ UNCHANGED <<acqVars, amp>>)
    \/ (DbGetCaptureFromId /\ UNCHANGED <<acqVars, amp>>)
    \/ (EnsureDatabaseInitialized /\ UNCHANGED <<acqVars, amp>>)

SpecStore == InitStore /\ [][NextStore]_vars

(***************************************************************************)
(* WaveformChannel.to_float_amplitude_array (waveform_objs.py, 63-67)      *)
(* Amplitudes are counted in thousandths, like the scale.                  *)
(***************************************************************************)
\* numpy's result type for (uint8 array + Python scalar).  A float scalar
\* gives float64.  For an int scalar NumPy 1.x looks at the value
\* ("legacy"): the smallest type holding it joins uint8; NumPy 2 ("nep50")
\* keeps uint8 and refuses a value out of its range.
Promotions == {"legacy", "nep50"}

add_dtype(x, promotion) ==
    IF x.t = "float" THEN "float64"
    ELSE IF x.v \in 0 .. 255 THEN "uint8"
    ELSE IF promotion = "nep50" THEN "OverflowError"
    ELSE IF x.v \in -128 .. -1 THEN "int16"
    ELSE IF x.v \in 256 .. 65535 THEN "uint16"
    ELSE "int32"

\* a value stored in an integer type of numpy: arithmetic wraps
Wrap(v, dtype) ==
    CASE dtype = "uint8"  -> v % 256
      [] dtype = "uint16" -> v % 65536
      [] dtype = "int16"  -> ((v + 32768) % 65536) - 32768
      [] OTHER            -> v

\* self.wf_data + self.vertical_offset
np_add(a, x, promotion) ==
    LET dt == add_dtype(x, promotion) IN
    IF dt = "OverflowError"
    THEN [ok |-> FALSE, exc |-> "OverflowError", dtype |-> "none", values |-> <<>>]
    ELSE [ok |-> TRUE, exc |-> "none", dtype |-> dt,
          values |-> [i \in 1 .. Len(a.items) |-> Wrap(a.items[i] + x.v, dt)]]

\* (...) * vert_scale_val, a float64 array
to_float_amplitude_array(wf, promotion) ==
    LET vert_scale_val == vertical_scale(wf)
        sum == np_add(wf.wf_data, wf.vertical_offset, promotion)
    IN IF ~sum.ok THEN sum
       ELSE [ok |-> TRUE, exc |-> "none", dtype |-> "float64",
             values |-> [i \in 1 .. Len(sum.values) |-> sum.values[i] * vert_scale_val]]

(***************************************************************************)
(* WaveformChannel.to_frequency_domain (waveform_objs.py, 69-84).  The      *)
(* numbers are kept exact: window values in twelfths, the samples less     *)
(* their mean multiplied by the sample count, and in place of a magnitude  *)
(* sqrt(re^2 + im^2) its square, which is zero exactly when the magnitude  *)
(* is.  Buffers of up to four samples are transformed.                     *)
(***************************************************************************)
WindowFunctions == {"hanning", "bartlett"}

\* windowing_function(n), in twelfths; numpy gives [1.] for one point,
\* hanning(4) = [0, .75, .75, 0] and bartlett(4) = [0, 2/3, 2/3, 0]
window(fn, n) ==
    CASE n = 1 -> <<12>>
      [] n = 2 -> <<0, 0>>
      [] n = 3 -> <<0, 12, 0>>
      [] n = 4 -> IF fn = "hanning" THEN <<0, 9, 9, 0>> ELSE <<0, 8, 8, 0>>
      [] OTHER -> <<>>

RECURSIVE SeqSum(_)
SeqSum(x) == IF x = <<>> THEN 0 ELSE x[1] + SeqSum(Tail(x))

\* float_array - dc_offset with dc_offset = npaverage(float_array), times Len(x)
less_average(x) == [i \in 1 .. Len(x) |-> Len(x) * x[i] - SeqSum(x)]

\* the squared magnitudes of numpy.fft.rfft(x): n div 2 + 1 bins for n >= 1
rfft_sq(x) ==
    CASE Len(x) = 1 -> << x[1] * x[1] >>
      [] Len(x) = 2 -> << (x[1] + x[2]) * (x[1] + x[2]), (x[1] - x[2]) * (x[1] - x[2]) >>
      [] Len(x) = 3 -> << SeqSum(x) * SeqSum(x),
                          x[1] * x[1] + x[2] * x[2] + x[3] * x[3]
                            - x[1] * x[2] - x[2] * x[3] - x[1] * x[3] >>
      [] Len(x) = 4 -> << SeqSum(x) * SeqSum(x),
                          (x[1] - x[3]) * (x[1] - x[3]) + (x[4] - x[2]) * (x[4] - x[2]),
                          (x[1] - x[2] + x[3] - x[4]) * (x[1] - x[2] + x[3] - x[4]) >>
      [] OTHER -> <<>>

\* lines 76-84; rfft raises ValueError for an input without data points.  The
\* transform is linear, so the scale factor of the amplitudes is taken out of
\* it: each value is the squared magnitude divided by the squared scale, and
\* zero when the scale is zero.
to_frequency_domain(wf, fn, promotion) ==
    LET float_array == to_float_amplitude_array(wf, promotion)
        unscaled    == np_add(wf.wf_data, wf.vertical_offset, promotion)
    IN
    IF ~float_array.ok THEN float_array
    ELSE IF Len(float_array.values) = 0
    THEN [ok |-> FALSE, exc |-> "ValueError", dtype |-> "none", values |-> <<>>]
    ELSE LET w  == window(fn, Len(wf.wf_data.items))
             d  == less_average(unscaled.values)
             sq == rfft_sq([i \in 1 .. Len(d) |-> w[i] * d[i]])
         IN [ok |-> TRUE, exc |-> "none", dtype |-> "float64",
             values |-> [k \in 1 .. Len(sq) |->
                           IF vertical_scale(wf) = 0 THEN 0 ELSE sq[k]]]

\* raw sample buffers, vertical offsets and scales of the channels computed on
AmpData    == {<<>>, <<200>>, <<0, 128, 255>>, <<255, 0>>, <<7, 7>>, <<9, 9, 9, 9>>}
AmpOffsets == {PyInt(-128), PyInt(0), PyInt(90), PyInt(300), PyFloat(-128), PyFloat(90)}
AmpScales  == {PyStr("0.01"), PyStr("1e-2"), PyFloat(10), PyFloat(25)}

\* the channel sent through the store and rebuilt from its row
AmpStoreRoundTrip ==
    /\ amp.stage = "fresh"
    /\ amp' = [amp EXCEPT !.stage = "reconstructed",
                          !.wf = ChannelOfRow(ChannelRow(amp.wf, 1, ""))]

\* wf.to_float_amplitude_array()
AmpCompute ==
    /\ amp.stage \in {"fresh", "reconstructed"}
    /\ amp' = [amp EXCEPT !.stage = IF amp.stage = "fresh" THEN "computed fresh"
                                    ELSE "computed reconstructed",
                          !.result = to_float_amplitude_array(amp.wf, amp.promotion)]

\* wf.to_frequency_domain(period, windowing_function)
AmpFrequency ==
    /\ amp.stage \in {"fresh", "reconstructed"}
    /\ \E fn \in WindowFunctions :
          amp' = [amp EXCEPT !.stage = IF amp.stage = "fresh" THEN "frequency fresh"
                                       ELSE "frequency reconstructed",
                             !.window = fn,
                             !.result = to_frequency_domain(amp.wf, fn, amp.promotion)]

InitAmp ==
    /\ InitAcqIdle
    /\ InitStoreIdle
    /\ \E d \in AmpData, o \in AmpOffsets, sc \in AmpScales, p \in Promotions :
          amp = [stage |-> "fresh", promotion |-> p,
                 wf |-> WaveformChannel("1", np_frombuffer(d), o, sc, ""),
                 window |-> "none", result |-> NoResult]

NextAmp ==
    \/ (AmpStoreRoundTrip /\ UNCHANGED <<acqVars, storeVars>>)
    \/ (AmpCompute /\ UNCHANGED <<acqVars, storeVars>>)
    \/ (AmpFrequency /\ UNCHANGED <<acqVars, storeVars>>)

SpecAmp == InitAmp /\ [][NextAmp]_vars

(***************************************************************************)
(* Properties of persistence and of the amplitude                          *)
(***************************************************************************)
NamesOf(d) == {d[k].name : k \in 1 .. Len(d)}
ChannelNamed(d, n) == d[CHOOSE k \in 1 .. Len(d) : d[k].name = n].wf

\* C4: write_to_db on a Capture followed by capture_from_database_id on the
\* returned id gives a Capture with the same period, the same channel names
\* and, per channel, the same sample bytes, the same vertical offset and a
\* vertical scale of the same numeric value.
C4_RoundTrip ==
    last.op = "Capture.write_to_db" =>
        /\ last.outcome = "returned"
        /\ HasCapture(captureTable, last.value)
        /\ \A order \in Orders(WaveformIdsOf(captureTable, waveformTable, last.value)) :
             LET c == heap[last.obj]
                 r == Reconstructed(captureTable, waveformTable, last.value, order, clock)
             IN /\ r.period = c.period
                /\ NamesOf(r.waveforms) = NamesOf(c.waveforms)
                /\ \A n \in NamesOf(c.waveforms) :
                     LET a == ChannelNamed(c.waveforms, n)
                         b == ChannelNamed(r.waveforms, n)
                     IN /\ tobytes(b.wf_data) = tobytes(a.wf_data)
                        /\ b.vertical_offset.v = a.vertical_offset.v
                        /\ vertical_scale(b) = vertical_scale(a)

\* C5: Capture.write_to_db inserts the capture row (period, time, description,
\* project id), then one waveform row per channel in the order of the channel
\* map, each referencing the new capture id, and returns that id.
C5_CaptureRowThenChannels ==
    last.op = "Capture.write_to_db" =>
        LET c == heap[last.obj]
            n == Len(c.waveforms)
        IN /\ last.outcome = "returned"
           /\ last.value = c._database_id
           /\ HasCapture(captureTable, last.value)
           /\ captureTable[last.value] =
                 CaptureRow(c.period, c._capture_time, c.description, c.project_id)
           /\ Len(last.stmts) = 2 * (n + 1)
           /\ last.stmts[1] = Stmt("insert", "capture", last.value)
           /\ \A k \in 1 .. n :
                LET id == c.waveforms[k].wf._database_id IN
                /\ last.stmts[2 * k + 1] = Stmt("insert", "waveform", id)
                /\ waveformTable[id].fk_capture = last.value
                /\ waveformTable[id].channel_name = c.waveforms[k].name

\* C9: the amplitude of sample i is (raw[i] + vertical_offset) * vertical_scale
\* with the true integer sum, and the result is as long as the samples, for a
\* fresh channel and for one rebuilt from the store.
C9_TrueSumAmplitude ==
    amp.stage \in {"computed fresh", "computed reconstructed"} =>
        /\ amp.result.ok
        /\ Len(amp.result.values) = Len(amp.wf.wf_data.items)
        /\ \A i \in 1 .. Len(amp.wf.wf_data.items) :
             amp.result.values[i] =
                 (amp.wf.wf_data.items[i] + amp.wf.vertical_offset.v) * vertical_scale(amp.wf)

\* C10: the vertical scale get_capture puts into a WaveformChannel is decimal
\* text (and stays that text through the store).
C10_AcquiredScaleIsText ==
    \A k \in 1 .. Len(capture.waveforms) :
        capture.waveforms[k].wf._vertical_scale.t = "str"

ChannelIds(cap) == [k \in 1 .. Len(cap.waveforms) |-> cap.waveforms[k].wf._database_id]
AllUnset(cap) ==
    /\ cap._database_id = UNSET_ID
    /\ \A k \in 1 .. Len(cap.waveforms) : ChannelIds(cap)[k] = UNSET_ID
Position(d, n) == CHOOSE k \in 1 .. Len(d) : d[k].name = n

C13_LastWriteWins ==
    /\ [](\A o \in 1 .. Len(heap) :
            Len(heap[o].waveforms) = Cardinality(NamesOf(heap[o].waveforms)))
    /\ [](last.op = "add_waveform" =>
            ChannelNamed(heap[last.obj].waveforms, last.name) = last.arg[1])
    /\ [][last'.op = "add_waveform" =>
            LET o   == last'.obj
                old == heap[o]
                new == heap'[o]
            IN /\ Len(heap') = Len(heap)
               /\ \A p \in 1 .. Len(heap) : p # o => heap'[p] = heap[p]
               /\ NamesOf(new.waveforms) = NamesOf(old.waveforms) \cup {last'.name}
               /\ \A m \in NamesOf(old.waveforms) \ {last'.name} :
                     ChannelNamed(new.waveforms, m) = ChannelNamed(old.waveforms, m)
               /\ [new EXCEPT !.waveforms = <<>>] = [old EXCEPT !.waveforms = <<>>]
               /\ <<captureTable, waveformTable, projectTable>>' =
                     <<captureTable, waveformTable, projectTable>>
      ]_vars

\* the last call was for the name of the first entry while a second entry,
\* added after the first, is in the map: the call replaced an entry
C13_Witness ==
    /\ last.op = "add_waveform"
    /\ Len(heap[last.obj].waveforms) = 2
    /\ heap[last.obj].waveforms[1].name = last.name
    /\ heap[last.obj].waveforms[1].wf = last.arg[1]

\* C14: reading a capture by an id that has no capture row ends in an error;
\* no value is returned to the caller.
C14_AbsentReadFails ==
    (/\ last.op \in {"db.get_capture_from_id", "capture_from_database_id"}
     /\ ~HasCapture(captureTable, last.value))
        => last.outcome = "raised"

\* C15: the Capture rebuilt from the id that write_to_db returned has the
\* description and the capture time of the written Capture.
C15_DescriptionAndTimeKept ==
    last.op = "Capture.write_to_db" =>
        /\ last.outcome = "returned"
        /\ HasCapture(captureTable, last.value)
        /\ \A order \in Orders(WaveformIdsOf(captureTable, waveformTable, last.value)) :
             LET r == Reconstructed(captureTable, waveformTable, last.value, order, clock)
             IN /\ r.description = heap[last.obj].description
                /\ r._capture_time = heap[last.obj]._capture_time

RowsWithId(tbl, id) == {k \in 1 .. Len(tbl) : tbl[k].id = id}

\* C18: the project table always holds exactly one row for each reserved
\* project, unassigned (-1) and testing (-2), also after the initialization
\* ran again between writes; the initialization leaves the capture and
\* waveform rows as they are.
C18_ReservedProjectsOnce ==
    /\ [](\A i \in 1 .. Len(ReservedProjects) :
            /\ Cardinality(RowsWithId(projectTable, ReservedProjects[i].id)) = 1
            /\ \A k \in RowsWithId(projectTable, ReservedProjects[i].id) :
                  projectTable[k] = ReservedProjects[i])
    /\ [](Len(projectTable) = Len(ReservedProjects))
    /\ [][last'.op = "db.ensure_database_initialized" =>
            /\ captureTable' = captureTable
            /\ waveformTable' = waveformTable]_vars

\* the initialization ran again on a store that holds capture and waveform rows
C18_Witness ==
    /\ last.op = "db.ensure_database_initialized"
    /\ Len(captureTable) >= 1
    /\ Len(waveformTable) >= 1

\* C19: to_frequency_domain on a channel of N samples returns N div 2 + 1
\* magnitudes, and all of them are zero when the samples are all equal.
C19_BinsAndZeroForConstant ==
    amp.stage \in {"frequency fresh", "frequency reconstructed"} =>
        LET raw == amp.wf.wf_data.items IN
        /\ amp.result.ok
        /\ Len(amp.result.values) = Len(raw) \div 2 + 1
        /\ (\A i, j \in 1 .. Len(raw) : raw[i] = raw[j]) =>
              \A k \in 1 .. Len(amp.result.values) : amp.result.values[k] = 0

\* the rows of table waveform that reference capture id
RowsOfCapture(id) == {w \in 1 .. Len(waveformTable) : waveformTable[w].fk_capture = id}

====
